---- MODULE Spec2Model ----
(***************************************************************************)
(* A model of audio_converter.py: the AudioConverterApp object, its UI     *)
(* callbacks (which run on the Tk main loop) and its conversion worker     *)
(* threads (one per start_conversion), together with the pure parts of     *)
(* convert_file (the classification of the encoder's result).              *)
(*                                                                         *)
(* Calls into Tk made by the worker (log, status_var.set, config) are      *)
(* taken to succeed; the only exception the worker's own except clause     *)
(* (line 685) then catches is the division by total_files = 0 at line 681. *)
(***************************************************************************)
EXTENDS Integers, Sequences, FiniteSets, TLC

\* ------------------------------------------------------------------ bounds
MaxRuns == 2          \* start_conversion calls that start a worker
MaxFiles == 2         \* length of file_list
MaxLines == 2         \* lines of captured stderr (pure specification)
MaxClicks == 4        \* UI callbacks and changes of the environment in a behaviour

\* ------------------------------------------------------------- value sets
NORMAL == "normal"
DISABLED == "disabled"

\* Input paths; Path(f).stem is f.stem, Path(f).name is stem + ext.
Files ==
    { [dir |-> "d1", stem |-> "a", ext |-> "wav"],
      [dir |-> "d2", stem |-> "a", ext |-> "flac"] }

NoFile == [dir |-> "", stem |-> "", ext |-> ""]

\* Path(input_file).name, as (name, message) pairs of failed_files carry it.
file_name(input_file) == [input_file EXCEPT !.dir = ""]

\* The values of the format combobox this model lets the user pick.
FormatChoices == {"mp3", "flac"}

\* A line of stderr is the set of the marker substrings that occur in it, plus
\* "text" when it holds any other non-blank character; {} is the empty line
\* and {"ws"} a line of blanks only.  "ffmpeg" is the case-insensitive match.
Markers == {"Invalid data", "Permission denied", "No space left", "Error", "ffmpeg", "text"}
Lines == (SUBSET Markers) \cup {{"ws"}}

\* error_msg, as error_msg.split('\n') gives it: "" is << {} >>.
RECURSIVE SeqsUpTo(_, _)
SeqsUpTo(S, n) ==
    IF n = 0 THEN {<<>>}
    ELSE LET shorter == SeqsUpTo(S, n - 1)
         IN shorter \cup {Append(s, x) : s \in {t \in shorter : Len(t) = n - 1}, x \in S}

Stderrs == SeqsUpTo(Lines, MaxLines) \ {<<>>}

\* What subprocess.run does: returns with a return code and stderr, raises
\* TimeoutExpired, or raises another exception (the encoder cannot be started).
NoStderr == << {} >>
ProcResult(kind, rc, err) == [kind |-> kind, returncode |-> rc, stderr |-> err]

\* The encoder results the worker specification draws from.
EncoderResults ==
    { ProcResult("exit", 0, NoStderr),
      ProcResult("exit", 1, << {"Permission denied", "text"} >>),
      ProcResult("timeout", 0, NoStderr),
      ProcResult("oserror", 0, NoStderr) }

\* --------------------------------------------------- convert_file, result
\* A variant of output_path that keeps the extension of the input in the name
\* ("a.wav.mp3"), so that inputs of one stem do not collide.
output_path_keeps_ext(input_file, output_format) ==
    <<input_file.stem, input_file.ext, output_format>>

\* os.path.join(self.output_dir, input_path.stem + '.' + output_format)
output_path(input_file, output_format) == <<input_file.stem, output_format>>

NoPath == <<>>

\* The second component of convert_file's return value: the output path on
\* success, the reason (with the stderr line it quotes) on failure.
Message(kind, path, line) == [kind |-> kind, path |-> path, line |-> line]

\* s in error_msg
InMsg(s, error_msg) == \E k \in 1..Len(error_msg) : s \in error_msg[k]

\* line.strip()
strip(line) == IF line = {"ws"} THEN {} ELSE line

\* for line in error_msg.split('\n'): if 'Error' in line and 'ffmpeg' not in line.lower()
IsErrorLine(line) == "Error" \in line /\ "ffmpeg" \notin line

FirstErrorLine(error_msg) ==
    LET hits == {k \in 1..Len(error_msg) : IsErrorLine(error_msg[k])}
    IN IF hits = {}
       THEN strip(error_msg[Len(error_msg)])
       ELSE strip(error_msg[CHOOSE k \in hits : \A j \in hits : k <= j])

\* [l for l in error_msg.split('\n') if l.strip()]
NonBlankLines(error_msg) == SelectSeq(error_msg, LAMBDA l : strip(l) # {})

\* Lines 589-592: the else branch; [..][-1] raises IndexError on an empty
\* list, which the except clause of line 596 turns into "错误: ...".
LastLineReason(error_msg) ==
    IF error_msg = NoStderr
    THEN Message("UnknownFailure", NoPath, {})
    ELSE LET rest == NonBlankLines(error_msg)
         IN IF rest = <<>>
            THEN Message("UnexpectedError", NoPath, {})
            ELSE Message("UnknownFailure", NoPath, rest[Len(rest)])

\* Lines 574-592: the reason for a non-zero return code.
StderrReason(error_msg) ==
    IF InMsg("Invalid data", error_msg) THEN Message("InvalidInputData", NoPath, {})
    ELSE IF InMsg("Permission denied", error_msg) THEN Message("PermissionDenied", NoPath, {})
    ELSE IF InMsg("No space left", error_msg) THEN Message("DiskFull", NoPath, {})
    ELSE IF InMsg("Error", error_msg) THEN Message("EncoderError", NoPath, FirstErrorLine(error_msg))
    ELSE LastLineReason(error_msg)

\* Lines 568-597: what convert_file returns for a result of subprocess.run.
convert_file_result(res, output_file) ==
    CASE res.kind = "timeout" -> [success |-> FALSE, message |-> Message("Timeout", NoPath, {})]
      [] res.kind = "oserror" -> [success |-> FALSE, message |-> Message("UnexpectedError", NoPath, {})]
      [] OTHER ->
           IF res.returncode = 0
           THEN [success |-> TRUE, message |-> Message("Success", output_file, {})]
           ELSE [success |-> FALSE, message |-> StderrReason(res.stderr)]

\* ------------------------------------------------------- quality labels
\* A label of the quality combobox: the word it starts with ("高质量" is
\* "high", "中等质量" "medium", "低质量" "low", "无损" "lossless", "标准质量"
\* "standard") and the text in brackets.  word in quality is q.word = word.
Label(word, detail) == [word |-> word, detail |-> detail]

QualityValues(output_format) ==
    CASE output_format \in {"mp3", "aac", "wma"} ->
           <<Label("high", "192 kbps"), Label("medium", "128 kbps"), Label("low", "64 kbps")>>
      [] output_format \in {"m4a", "ogg"} ->
           <<Label("high", "256 kbps"), Label("medium", "192 kbps"), Label("low", "128 kbps")>>
      [] output_format \in {"flac", "wav"} ->
           <<Label("lossless", "original"), Label("high", "48kHz"), Label("standard", "44.1kHz")>>

Range(seq) == {seq[k] : k \in 1..Len(seq)}

\* The values of the format combobox (line 186).
Formats == {"mp3", "flac", "wav", "ogg", "m4a", "aac", "wma"}

\* '高质量' in quality, and the like: the label holds the word.
HasWord(word, quality) == quality.word = word

\* ----------------------------------------------- convert_file, the command
\* An element of cmd: a literal string, the input path or the output path.
Tok(s) == [s |-> s, file |-> NoFile, out |-> NoPath]
InTok(input_file) == [s |-> "", file |-> input_file, out |-> NoPath]
OutTok(output_file) == [s |-> "", file |-> NoFile, out |-> output_file]

\* Line 452: cmd = ['ffmpeg', '-y', '-i', input_file, '-vn']
cmd_prefix(input_file) ==
    <<Tok("ffmpeg"), Tok("-y"), Tok("-i"), InTok(input_file), Tok("-vn")>>

\* The if / elif / else on the quality label of a lossy format.
bitrate_flags(quality, high, medium, low) ==
    <<Tok("-b:a"),
      Tok(IF HasWord("high", quality) THEN high
          ELSE IF HasWord("medium", quality) THEN medium
          ELSE low)>>

\* Lines 469-473 and 476-480: the sample rate of flac and wav.
sample_rate_flags(quality) ==
    IF HasWord("lossless", quality) THEN <<>>
    ELSE IF HasWord("high", quality) THEN <<Tok("-ar"), Tok("48000")>>
    ELSE <<Tok("-ar"), Tok("44100")>>

\* A variant of container_flags that forces the container for ogg as well.
container_flags_ogg_too(output_format) ==
    IF output_format \in {"m4a", "ogg"}
    THEN <<Tok("-vn"), Tok("-f"), Tok("mov")>>
    ELSE <<>>

\* Lines 491-493: m4a is written into a mov container.
container_flags(output_format) ==
    IF output_format = "m4a"
    THEN <<Tok("-vn"), Tok("-f"), Tok("mov")>>
    ELSE <<>>

\* A variant of codec_flags with the bitrates of m4a taken from the mp3 table.
codec_flags_m4a_as_mp3(output_format, quality) ==
    CASE output_format = "mp3" ->
           <<Tok("-codec:a"), Tok("libmp3lame")>> \o bitrate_flags(quality, "192k", "128k", "64k")
      [] output_format = "flac" ->
           <<Tok("-codec:a"), Tok("flac")>> \o sample_rate_flags(quality)
      [] output_format = "wav" ->
           <<Tok("-codec:a"), Tok("pcm_s16le")>> \o sample_rate_flags(quality)
      [] output_format = "ogg" ->
           <<Tok("-codec:a"), Tok("libvorbis")>> \o bitrate_flags(quality, "256k", "192k", "128k")
      [] output_format = "m4a" ->
           <<Tok("-codec:a"), Tok("aac")>> \o bitrate_flags(quality, "192k", "128k", "64k")
      [] output_format = "aac" ->
           <<Tok("-codec:a"), Tok("aac")>> \o bitrate_flags(quality, "192k", "128k", "64k")
      [] output_format = "wma" ->
           <<Tok("-codec:a"), Tok("wmav2")>> \o bitrate_flags(quality, "192k", "128k", "64k")
      [] OTHER -> <<>>

\* Lines 460-516: the codec and the quality flags; a format that matches no
\* branch adds nothing.
codec_flags(output_format, quality) ==
    CASE output_format = "mp3" ->
           <<Tok("-codec:a"), Tok("libmp3lame")>> \o bitrate_flags(quality, "192k", "128k", "64k")
      [] output_format = "flac" ->
           <<Tok("-codec:a"), Tok("flac")>> \o sample_rate_flags(quality)
      [] output_format = "wav" ->
           <<Tok("-codec:a"), Tok("pcm_s16le")>> \o sample_rate_flags(quality)
      [] output_format = "ogg" ->
           <<Tok("-codec:a"), Tok("libvorbis")>> \o bitrate_flags(quality, "256k", "192k", "128k")
      [] output_format = "m4a" ->
           <<Tok("-codec:a"), Tok("aac")>> \o bitrate_flags(quality, "256k", "192k", "128k")
      [] output_format = "aac" ->
           <<Tok("-codec:a"), Tok("aac")>> \o bitrate_flags(quality, "192k", "128k", "64k")
      [] output_format = "wma" ->
           <<Tok("-codec:a"), Tok("wmav2")>> \o bitrate_flags(quality, "192k", "128k", "64k")
      [] OTHER -> <<>>

\* Lines 452-518: the command convert_file hands to subprocess.run.
build_cmd(input_file, output_format, quality) ==
    cmd_prefix(input_file)
        \o container_flags(output_format)
        \o codec_flags(output_format, quality)
        \o <<OutTok(output_path(input_file, output_format))>>

\* ------------------------------------------------------------------ state
VARIABLES
    file_list,            \* self.file_list
    is_converting,        \* self.is_converting
    start_btn,            \* state of self.start_btn
    stop_btn,             \* state of self.stop_btn
    clear_btn,            \* state of self.clear_btn
    output_format_var,    \* self.output_format_var
    quality_var,          \* self.quality_var
    quality_values,       \* self.quality_combo['values']
    delete_original_var,  \* self.delete_original_var
    progress_var,         \* self.progress_var, as <<n, d>> for 100 * n / d
    after_calls,          \* clear_files calls scheduled with root.after
    nruns,                \* worker threads started so far
    workers,              \* the locals and position of each worker thread
    hist,                 \* per worker: what it has done (history)
    fs_exists,            \* the input files that exist on disk
    dir_writable,         \* os.access(self.output_dir, os.W_OK)
    clicks,               \* UI callbacks run and environment changes so far
    probe,                \* a result of subprocess.run handed to convert_file
    verdict,              \* what convert_file returned for probe
    request,              \* the inputs of a call of convert_file on its own
    calls                 \* the calls of convert_file made on their own, in order

app_vars == <<file_list, is_converting, start_btn, stop_btn, clear_btn,
              output_format_var, quality_var, quality_values, delete_original_var,
              progress_var, after_calls, nruns, workers, hist, fs_exists,
              dir_writable, clicks>>

\* The variables of convert_file taken on its own.
call_vars == <<request, calls>>

vars == <<app_vars, probe, verdict, call_vars>>

ui_options == <<output_format_var, quality_var, quality_values, delete_original_var>>
buttons == <<start_btn, stop_btn, clear_btn>>
threads == <<nruns, workers, hist>>
disk == <<fs_exists, dir_writable>>

Runs == 1..MaxRuns

\* A worker thread: pc is "none" before threading.Thread(...).start(),
\* "begin" at line 625, "loop" at the head of the for loop (line 648),
\* "encoding" inside subprocess.run, "finish" at line 690 and "done" after
\* the function returned.
NewWorker ==
    [ pc |-> "none", total_files |-> 0, converted_files |-> 0, failed_files |-> <<>>,
      delete_original |-> FALSE, output_format |-> "mp3", i |-> 0,
      input_file |-> NoFile, output_file |-> NoPath, quality |-> Label("", ""),
      input_present |-> FALSE, job_format |-> "", cmd |-> <<>> ]

\* Lines 696-706: what the end of a run tells the user.
NoSummary == [title |-> "", converted |-> 0, failed |-> <<>>, total |-> 0]

\* History of a worker: the list it was started on, the files it invoked the
\* encoder for, one record per job it recorded, the progress values it set,
\* whether stop_conversion ran during the run, the number of jobs done when
\* it first ran between two jobs (-1: never), how the run ended and the
\* summary it showed.
NewHist ==
    [ batch |-> <<>>, attempts |-> <<>>, outcomes |-> <<>>, progress |-> <<>>,
      stop_requested |-> FALSE, cancel_at |-> -1, access_checks |-> 0, ended |-> "",
      summary |-> NoSummary ]

Alive(w) == workers[w].pc \in {"begin", "loop", "encoding"}

InitApp ==
    /\ file_list = <<>>
    /\ is_converting = FALSE
    /\ start_btn = DISABLED
    /\ stop_btn = DISABLED
    /\ clear_btn = NORMAL
    /\ output_format_var = "mp3"
    /\ quality_var = Label("high", "192 kbps")
    /\ quality_values = QualityValues("mp3")
    /\ delete_original_var = FALSE
    /\ progress_var = <<0, 1>>
    /\ after_calls = 0
    /\ nruns = 0
    /\ workers = [w \in Runs |-> NewWorker]
    /\ hist = [w \in Runs |-> NewHist]
    /\ fs_exists = Files
    /\ dir_writable = TRUE
    /\ clicks = 0

NoVerdict == [success |-> FALSE, message |-> Message("", NoPath, {})]

\* No call of convert_file on its own is under way.
NoRequest ==
    [input_file |-> NoFile, output_format |-> "", quality |-> Label("", ""),
     res |-> ProcResult("exit", 0, NoStderr)]

NoCalls == request = NoRequest /\ calls = <<>>

Init ==
    /\ InitApp
    /\ probe = ProcResult("exit", 0, NoStderr)
    /\ verdict = NoVerdict
    /\ NoCalls

\* --------------------------------------------------------- UI callbacks
\* One more callback of the Tk main loop (or change of the environment).
user_event == clicks < MaxClicks /\ clicks' = clicks + 1 /\ UNCHANGED <<probe, verdict, call_vars>>

\* A step that is no callback of the user's: a worker's, or a timer's.
no_event == UNCHANGED <<clicks, probe, verdict, call_vars>>

\* self.file_list.extend(files) followed by enabling the start button: the
\* common tail of select_files, select_folder and on_drop.
extend_files(files) ==
    /\ user_event
    /\ files # <<>>
    /\ Len(file_list) + Len(files) <= MaxFiles
    /\ file_list' = file_list \o files
    /\ start_btn' = NORMAL
    /\ UNCHANGED <<is_converting, stop_btn, clear_btn, ui_options, progress_var,
                   after_calls, threads, disk>>

Picks == SeqsUpTo(Files, MaxFiles) \ {<<>>}

select_files == \E files \in Picks : extend_files(files)

select_folder == \E files \in Picks : extend_files(files)

on_drop == \E audio_files \in Picks : extend_files(audio_files)

\* The body of clear_files.
do_clear_files ==
    /\ file_list' = <<>>
    /\ start_btn' = DISABLED
    /\ progress_var' = <<0, 1>>

\* clear_files, from the clear button.
clear_files ==
    /\ user_event
    /\ clear_btn = NORMAL
    /\ do_clear_files
    /\ UNCHANGED <<is_converting, stop_btn, clear_btn, ui_options, after_calls, threads, disk>>

\* clear_files, from self.root.after(0, self.clear_files) (line 715).
after_clear_files ==
    /\ no_event
    /\ after_calls > 0
    /\ after_calls' = after_calls - 1
    /\ do_clear_files
    /\ UNCHANGED <<is_converting, stop_btn, clear_btn, ui_options,
                   threads, disk>>

\* A variant of reset_quality that offers the tiers of the new format but
\* leaves the selected quality as it is.
reset_quality_keeps_selection(output_format) ==
    /\ quality_values' = QualityValues(output_format)
    /\ UNCHANGED quality_var

\* Lines 305-332: the quality combobox gets the tiers of the format and its
\* first tier is selected.
reset_quality(output_format) ==
    /\ quality_values' = QualityValues(output_format)
    /\ quality_var' = QualityValues(output_format)[1]

\* The format combobox is set to output_format and on_format_change runs.
format_selected(output_format) ==
    /\ user_event
    /\ output_format_var' = output_format
    /\ reset_quality(output_format)
    /\ UNCHANGED <<file_list, is_converting, buttons, delete_original_var,
                   progress_var, after_calls, threads, disk>>

on_format_change == \E output_format \in FormatChoices : format_selected(output_format)

\* The user picks a value of the (readonly) quality combobox.
select_quality ==
    \E q \in Range(quality_values) :
        /\ user_event
        /\ quality_var' = q
        /\ UNCHANGED <<file_list, is_converting, buttons, output_format_var,
                       quality_values, delete_original_var, progress_var,
                       after_calls, threads, disk>>

\* The user toggles the "delete original" checkbutton.
toggle_delete_original ==
    /\ user_event
    /\ delete_original_var' = ~delete_original_var
    /\ UNCHANGED <<file_list, is_converting, buttons, output_format_var,
                   quality_var, quality_values, progress_var, after_calls, threads, disk>>

\* start_conversion with an empty list: the warning, and nothing else.
start_conversion_empty ==
    /\ user_event
    /\ start_btn = NORMAL
    /\ file_list = <<>>
    /\ UNCHANGED <<file_list, is_converting, buttons, ui_options, progress_var,
                   after_calls, threads, disk>>

\* start_conversion with files: the flag, the buttons and a new thread.
start_conversion_run ==
    /\ user_event
    /\ start_btn = NORMAL
    /\ file_list # <<>>
    /\ nruns < MaxRuns
    /\ is_converting' = TRUE
    /\ start_btn' = DISABLED
    /\ stop_btn' = NORMAL
    /\ clear_btn' = DISABLED
    /\ nruns' = nruns + 1
    /\ workers' = [workers EXCEPT ![nruns + 1].pc = "begin"]
    /\ UNCHANGED <<file_list, ui_options, progress_var, after_calls,
                   hist, disk>>

start_conversion == start_conversion_empty \/ start_conversion_run

stop_conversion ==
    /\ user_event
    /\ stop_btn = NORMAL
    /\ is_converting' = FALSE
    /\ start_btn' = NORMAL
    /\ stop_btn' = DISABLED
    /\ clear_btn' = NORMAL
    /\ hist' = [w \in Runs |->
                  IF Alive(w)
                  THEN [hist[w] EXCEPT
                          !.stop_requested = TRUE,
                          !.cancel_at = IF workers[w].pc = "loop" /\ @ = -1
                                        THEN workers[w].i ELSE @]
                  ELSE hist[w]]
    /\ UNCHANGED <<file_list, ui_options, progress_var, after_calls,
                   nruns, workers, disk>>

\* ------------------------------------------------------ the worker thread
\* A variant of output_dir_writable for a worker that skips the check of the
\* output directory; the properties of the fatal error must tell it apart.
output_dir_unchecked == TRUE

\* Line 639: os.access(self.output_dir, os.W_OK)
output_dir_writable == dir_writable

\* Lines 625-636 and 638-646: the locals, then the check of the output
\* directory; when it fails the worker resets the controls and returns.
worker_begin(w) ==
    /\ no_event
    /\ workers[w].pc = "begin"
    /\ LET wk == [workers[w] EXCEPT !.total_files = Len(file_list),
                                    !.converted_files = 0,
                                    !.failed_files = <<>>,
                                    !.delete_original = delete_original_var,
                                    !.output_format = output_format_var]
           h == [hist[w] EXCEPT !.batch = file_list,
                                !.access_checks = @ + 1]
       IN IF output_dir_writable
          THEN /\ workers' = [workers EXCEPT ![w] = [wk EXCEPT !.pc = "loop", !.i = 0]]
               /\ hist' = [hist EXCEPT ![w] = h]
               /\ UNCHANGED <<is_converting, buttons>>
          ELSE /\ workers' = [workers EXCEPT ![w] = [wk EXCEPT !.pc = "done"]]
               /\ hist' = [hist EXCEPT ![w] = [h EXCEPT !.ended = "fatal"]]
               /\ is_converting' = FALSE
               /\ start_btn' = NORMAL
               /\ stop_btn' = DISABLED
               /\ clear_btn' = NORMAL
    /\ UNCHANGED <<file_list, ui_options, progress_var, after_calls,
                   nruns, disk>>

\* Line 648: the list iterator of enumerate(self.file_list) has no item left.
worker_exhausted(w) ==
    /\ no_event
    /\ workers[w].pc = "loop"
    /\ workers[w].i >= Len(file_list)
    /\ workers' = [workers EXCEPT ![w].pc = "finish"]
    /\ hist' = [hist EXCEPT ![w].ended = "exhausted"]
    /\ UNCHANGED <<file_list, is_converting, buttons, ui_options, progress_var,
                   after_calls, nruns, disk>>

\* Lines 649-651: the flag is down at the head of an iteration.
worker_cancelled(w) ==
    /\ no_event
    /\ workers[w].pc = "loop"
    /\ workers[w].i < Len(file_list)
    /\ ~is_converting
    /\ workers' = [workers EXCEPT ![w].pc = "finish",
                                  ![w].input_file = file_list[workers[w].i + 1]]
    /\ hist' = [hist EXCEPT ![w].ended = "cancelled"]
    /\ UNCHANGED <<file_list, is_converting, buttons, ui_options, progress_var,
                   after_calls, nruns, disk>>

\* Lines 653-661 and 447-566: the next item of the list, the command built
\* from the format and quality selected now, and the encoder started.
worker_convert(w) ==
    /\ no_event
    /\ workers[w].pc = "loop"
    /\ workers[w].i < Len(file_list)
    /\ is_converting
    /\ LET input_file == file_list[workers[w].i + 1]
       IN /\ workers' = [workers EXCEPT
                           ![w].pc = "encoding",
                           ![w].input_file = input_file,
                           ![w].output_file = output_path(input_file, output_format_var),
                           ![w].quality = quality_var,
                           ![w].job_format = output_format_var,
                           ![w].cmd = build_cmd(input_file, output_format_var, quality_var),
                           ![w].input_present = (input_file \in fs_exists)]
          /\ hist' = [hist EXCEPT ![w].attempts = Append(@, input_file)]
    /\ UNCHANGED <<file_list, is_converting, buttons, ui_options, progress_var,
                   after_calls, nruns, disk>>

\* A variant of should_delete that removes the input after a failed job too.
should_delete_any_result(success, delete_original) == delete_original

\* Lines 663 and 670: os.remove(input_file) is reached.
should_delete(success, delete_original) == success /\ delete_original

\* Lines 663-678: the tally after convert_file returned; removed is "no",
\* "ok" or "failed" (os.remove raised, line 674).
record_outcome(wk, result, removed) ==
    IF result.success
    THEN [wk EXCEPT !.converted_files = @ + 1]
    ELSE [wk EXCEPT !.failed_files = Append(@, <<file_name(wk.input_file), result.message>>)]

\* Lines 685-687: the except clause of the loop body, reached from line 681
\* when total_files is 0.
record_exception(wk) ==
    [wk EXCEPT !.failed_files =
        Append(@, <<wk.input_file, Message("ZeroDivisionError", NoPath, {})>>)]

\* A variant of pc_after_job for a loop that a failed job ends.
pc_after_job_failure_ends_run(success) == IF success THEN "loop" ELSE "finish"

\* Lines 648 and 676-687: where the worker goes after a job.
pc_after_job(success) == "loop"

\* Lines 568-597 and 661-687: subprocess.run returns or raises, convert_file
\* classifies, the worker tallies, removes the input and sets the progress.
encoder_returns(w) ==
    /\ no_event
    /\ workers[w].pc = "encoding"
    /\ \E res \in EncoderResults, rm_ok \in BOOLEAN :
         LET wk == workers[w]
             result == convert_file_result(res, wk.output_file)
             del == should_delete(result.success, wk.delete_original)
             removed == IF ~del THEN "no" ELSE IF rm_ok THEN "ok" ELSE "failed"
             raised == wk.total_files = 0
             tallied == record_outcome(wk, result, removed)
             after == IF raised THEN record_exception(tallied) ELSE tallied
         IN /\ (res.kind = "exit" /\ res.returncode = 0) => wk.input_present
            /\ rm_ok => (del /\ wk.input_file \in fs_exists)
            /\ fs_exists' = IF removed = "ok" THEN fs_exists \ {wk.input_file} ELSE fs_exists
            /\ progress_var' = IF raised THEN progress_var ELSE <<wk.i + 1, wk.total_files>>
            /\ workers' = [workers EXCEPT ![w] =
                             [after EXCEPT !.pc = pc_after_job(result.success), !.i = @ + 1]]
            /\ hist' = [hist EXCEPT
                          ![w].outcomes = Append(@, [file |-> wk.input_file,
                                                     index |-> wk.i,
                                                     format |-> wk.job_format,
                                                     quality |-> wk.quality,
                                                     cmd |-> wk.cmd,
                                                     output |-> wk.output_file,
                                                     success |-> result.success,
                                                     kind |-> result.message.kind,
                                                     removed |-> removed,
                                                     raised |-> raised,
                                                     converted |-> after.converted_files - wk.converted_files,
                                                     failed |-> Len(after.failed_files) - Len(wk.failed_files)]),
                          ![w].progress = IF raised THEN @ ELSE Append(@, <<wk.i + 1, wk.total_files>>)]
    /\ UNCHANGED <<file_list, is_converting, buttons, ui_options, after_calls, nruns, dir_writable>>

\* Lines 697 and 706: the title of the summary, whatever ended the loop.
summary_title(ended) == "completed"

\* Lines 689-715: the controls are reset, the summary is shown and, after a
\* run with a success, the (modal) dialog asks whether to clear the list.
worker_finish(w) ==
    /\ no_event
    /\ workers[w].pc = "finish"
    /\ is_converting' = FALSE
    /\ start_btn' = NORMAL
    /\ stop_btn' = DISABLED
    /\ clear_btn' = NORMAL
    /\ workers' = [workers EXCEPT ![w].pc = "done"]
    /\ hist' = [hist EXCEPT ![w].summary =
                   [title |-> summary_title(hist[w].ended),
                    converted |-> workers[w].converted_files,
                    failed |-> workers[w].failed_files,
                    total |-> workers[w].total_files]]
    /\ \E response \in BOOLEAN :
         /\ response => workers[w].converted_files > 0
         /\ after_calls' = IF response THEN after_calls + 1 ELSE after_calls
    /\ UNCHANGED <<file_list, ui_options, progress_var, nruns, disk>>

\* ------------------------------------------------------------ environment
\* The permissions of the output directory change.
chmod_output_dir ==
    /\ user_event
    /\ dir_writable' = ~dir_writable
    /\ UNCHANGED <<file_list, is_converting, buttons, ui_options, progress_var,
                   after_calls, threads, fs_exists>>

\* ------------------------------------------------------------------- Spec
Next ==
    \/ select_files
    \/ select_folder
    \/ on_drop
    \/ clear_files
    \/ after_clear_files
    \/ toggle_delete_original
    \/ on_format_change
    \/ select_quality
    \/ start_conversion
    \/ stop_conversion
    \/ chmod_output_dir
    \/ \E w \in Runs : worker_begin(w)
    \/ \E w \in Runs : worker_exhausted(w)
    \/ \E w \in Runs : worker_cancelled(w)
    \/ \E w \in Runs : worker_convert(w)
    \/ \E w \in Runs : encoder_returns(w)
    \/ \E w \in Runs : worker_finish(w)

Spec == Init /\ [][Next]_vars

\* A step of worker thread w.
worker_step(w) ==
    \/ worker_begin(w)
    \/ worker_exhausted(w)
    \/ worker_cancelled(w)
    \/ worker_convert(w)
    \/ encoder_returns(w)
    \/ worker_finish(w)

\* Every worker thread that can take a step is scheduled, and subprocess.run
\* returns or raises (timeout=300, lines 554 and 565).
Fairness == \A w \in Runs : WF_vars(worker_step(w))

FairSpec == Init /\ [][Next]_vars /\ Fairness

\* The application after the user has ticked "delete the original files".
InitDeleteOn ==
    /\ file_list = <<>>
    /\ is_converting = FALSE
    /\ start_btn = DISABLED
    /\ stop_btn = DISABLED
    /\ clear_btn = NORMAL
    /\ output_format_var = "mp3"
    /\ quality_var = Label("high", "192 kbps")
    /\ quality_values = QualityValues("mp3")
    /\ delete_original_var = TRUE
    /\ progress_var = <<0, 1>>
    /\ after_calls = 0
    /\ nruns = 0
    /\ workers = [w \in Runs |-> NewWorker]
    /\ hist = [w \in Runs |-> NewHist]
    /\ fs_exists = Files
    /\ dir_writable = TRUE
    /\ clicks = 0
    /\ probe = ProcResult("exit", 0, NoStderr)
    /\ verdict = NoVerdict
    /\ NoCalls

SpecDeleteOn == InitDeleteOn /\ [][Next]_vars

\* ------------------------------------------- convert_file on its own
\* The results of subprocess.run the classification is applied to.
ReturnCodes == {0, 1}

ProbeInputs ==
    {ProcResult("exit", rc, err) : rc \in ReturnCodes, err \in Stderrs}
        \cup {ProcResult("timeout", 0, NoStderr), ProcResult("oserror", 0, NoStderr)}

InitPure ==
    /\ InitApp
    /\ probe \in ProbeInputs
    /\ verdict = NoVerdict
    /\ NoCalls

\* convert_file returns for the probed result (lines 568-597).
classify_probe ==
    /\ verdict = NoVerdict
    /\ verdict' = convert_file_result(probe, output_path(CHOOSE f \in Files : TRUE, output_format_var))
    /\ UNCHANGED <<app_vars, probe, call_vars>>

NextPure == classify_probe

SpecPure == InitPure /\ [][NextPure]_vars

\* ------------------------------------------------ the options on their own
\* on_format_change for any value of the format combobox.
on_any_format_change == \E output_format \in Formats : format_selected(output_format)

NextOptions ==
    \/ on_any_format_change
    \/ select_quality
    \/ toggle_delete_original

SpecOptions == Init /\ [][NextOptions]_vars

\* ------------------------------------ convert_file called on its own
MaxCalls == 2         \* calls of convert_file in a behaviour

\* A format the combobox does not offer.
OtherFormats == {"opus"}

\* The labels of the quality combobox, of every format.
AllLabels == UNION {Range(QualityValues(f)) : f \in Formats}

\* The results of subprocess.run the calls draw from.
CallResults ==
    { ProcResult("exit", 0, NoStderr),
      ProcResult("exit", 1, << {"Error", "text"} >>),
      ProcResult("timeout", 0, NoStderr) }

Requests ==
    [input_file : Files, output_format : Formats \cup OtherFormats,
     quality : AllLabels, res : CallResults]

\* A variant of convert_file that will not write an output path twice: it
\* refuses the job when an earlier call already produced the path.
convert_file_once_per_output(input_file, output_format, quality, res) ==
    LET output_file == output_path(input_file, output_format)
        taken == \E k \in 1..Len(calls) :
                     calls[k].out.result.success /\ calls[k].out.output_file = output_file
    IN [cmd |-> build_cmd(input_file, output_format, quality),
        output_file |-> output_file,
        invoked |-> ~taken,
        result |-> IF taken
                   THEN [success |-> FALSE, message |-> Message("UnexpectedError", NoPath, {})]
                   ELSE convert_file_result(res, output_file)]

\* Lines 443-597: convert_file for a file, the format and quality selected,
\* and what subprocess.run does with the command; subprocess.run is reached
\* on every path (no statement before line 549 returns).  The one attribute
\* the method keeps, self.debug_cmd, is assigned at line 455 before it is
\* read at line 586, and cmd_info is not part of the value returned.
convert_file(input_file, output_format, quality, res) ==
    LET output_file == output_path(input_file, output_format)
    IN [cmd |-> build_cmd(input_file, output_format, quality),
        output_file |-> output_file,
        invoked |-> TRUE,
        result |-> convert_file_result(res, output_file)]

InitCall ==
    /\ InitApp
    /\ probe = ProcResult("exit", 0, NoStderr)
    /\ verdict = NoVerdict
    /\ request \in Requests
    /\ calls = <<>>

\* One call of convert_file; the inputs of the next call are chosen.
call_convert_file ==
    /\ Len(calls) < MaxCalls
    /\ calls' = Append(calls,
                   [req |-> request,
                    out |-> convert_file(request.input_file, request.output_format,
                                         request.quality, request.res)])
    /\ IF Len(calls) + 1 < MaxCalls
       THEN request' \in Requests
       ELSE request' = request
    /\ UNCHANGED <<app_vars, probe, verdict>>

NextCall == call_convert_file

SpecCall == InitCall /\ [][NextCall]_vars

\* ----------------------------------------------------------------- claims
Last(seq) == seq[Len(seq)]

\* The worker's loop is over.
RunOver(w) == workers[w].pc \in {"finish", "done"}

\* The loop ended without the break of line 651 and stop_conversion did not
\* run while the worker was alive.
NotCancelled(w) == hist[w].ended = "exhausted" /\ ~hist[w].stop_requested

\* C1: in a run that is not cancelled every file of the batch (the list the
\* run was started on) gets exactly one outcome, in list order: job k of the
\* run is file k of the batch and is counted once in converted_files or
\* appended once to failed_files, never both and never neither.
C1_EveryFileOneOutcome ==
    \A w \in Runs :
        (RunOver(w) /\ NotCancelled(w)) =>
            /\ Len(hist[w].outcomes) >= Len(hist[w].batch)
            /\ \A k \in 1..Len(hist[w].batch) :
                 /\ hist[w].outcomes[k].file = hist[w].batch[k]
                 /\ hist[w].outcomes[k].index = k - 1
                 /\ hist[w].outcomes[k].converted + hist[w].outcomes[k].failed = 1

\* C2: at most one worker is inside convert_file's subprocess.run at a time.
C2_OneEncoderInFlight ==
    Cardinality({w \in Runs : workers[w].pc = "encoding"}) <= 1

\* C3: once stop_conversion has run during a run, the worker of that run
\* starts no further encoder invocation, whatever follows.
C3_NoInvocationAfterStop ==
    [][\A w \in Runs :
         (hist[w].stop_requested /\ workers[w].pc # "encoding")
             => workers'[w].pc # "encoding"]_vars

\* C4: when stop_conversion runs between job k and job k+1 of a run on N
\* files (k < N), the run ends with exactly k jobs attempted and recorded.
C4_ExactlyKJobs ==
    \A w \in Runs :
        (workers[w].pc = "done" /\ hist[w].cancel_at >= 0
            /\ hist[w].cancel_at < workers[w].total_files) =>
            /\ Len(hist[w].attempts) = hist[w].cancel_at
            /\ Len(hist[w].outcomes) = hist[w].cancel_at

\* C5: start_conversion with an empty list starts no worker; a worker that
\* finds the output directory not writable returns at once with the controls
\* idle, having invoked no encoder and recorded no outcome; the check is made
\* once per run (a run that passed it goes on whatever the directory becomes).
C5_FatalState ==
    \A w \in Runs :
        /\ hist[w].access_checks <= 1
        /\ hist[w].ended = "fatal" =>
             /\ workers[w].pc = "done"
             /\ hist[w].attempts = <<>>
             /\ hist[w].outcomes = <<>>
             /\ workers[w].converted_files = 0
             /\ workers[w].failed_files = <<>>

C5_BeginStep ==
    \A w \in Runs :
        (workers[w].pc = "begin" /\ workers'[w].pc # "begin") =>
            IF dir_writable
            THEN workers'[w].pc = "loop"
            ELSE /\ workers'[w].pc = "done"
                 /\ hist'[w].ended = "fatal"
                 /\ ~is_converting'
                 /\ start_btn' = NORMAL
                 /\ stop_btn' = DISABLED

C5_EmptyStart ==
    (start_conversion /\ file_list = <<>>) => UNCHANGED <<threads, is_converting, buttons>>

C5_RunNeedsFilesAndWritableDir ==
    /\ []C5_FatalState
    /\ [][C5_BeginStep]_vars
    /\ [][C5_EmptyStart]_vars

\* A run on a non-empty list ended by the fatal error, controls idle.
C5_Witness ==
    \E w \in Runs :
        /\ hist[w].ended = "fatal"
        /\ hist[w].batch # <<>>
        /\ ~is_converting /\ start_btn = NORMAL /\ stop_btn = DISABLED

\* C6: a failed job never ends the run: the step that records a failure
\* appends the file to failed_files, leaves converted_files alone and goes
\* back to the head of the loop, and from there the worker attempts the next
\* file of the list whenever the flag is up and the list has one.
C6_FailureStep ==
    \A w \in Runs :
        (workers[w].pc = "encoding" /\ workers'[w].pc # "encoding"
            /\ ~Last(hist'[w].outcomes).success) =>
            /\ workers'[w].pc = "loop"
            /\ workers'[w].i = workers[w].i + 1
            /\ workers'[w].converted_files = workers[w].converted_files
            /\ Len(workers'[w].failed_files) > Len(workers[w].failed_files)
            /\ LET entry == workers'[w].failed_files[Len(workers[w].failed_files) + 1]
               IN /\ entry[1] = file_name(workers[w].input_file)
                  /\ entry[2].kind = Last(hist'[w].outcomes).kind
                  /\ entry[2].kind # "Success"

C6_LoopStep ==
    \A w \in Runs :
        (workers[w].pc = "loop" /\ workers'[w].pc # "loop"
            /\ is_converting /\ workers[w].i < Len(file_list)) =>
            /\ workers'[w].pc = "encoding"
            /\ workers'[w].input_file = file_list[workers[w].i + 1]

C6_FailureNeverAbortsRun ==
    /\ [][C6_FailureStep]_vars
    /\ [][C6_LoopStep]_vars

\* A run whose first job failed and whose second job was attempted.
C6_Witness ==
    \E w \in Runs :
        /\ Len(hist[w].outcomes) >= 1
        /\ ~hist[w].outcomes[1].success
        /\ Len(hist[w].attempts) >= 2

\* The reason the ordered rules give for a captured stderr: the first rule
\* whose substring occurs in it, UnknownFailure when none does.
C7_RuleKind(error_msg) ==
    IF InMsg("Invalid data", error_msg) THEN "InvalidInputData"
    ELSE IF InMsg("Permission denied", error_msg) THEN "PermissionDenied"
    ELSE IF InMsg("No space left", error_msg) THEN "DiskFull"
    ELSE IF InMsg("Error", error_msg) THEN "EncoderError"
    ELSE "UnknownFailure"

\* C7: for a non-zero return code convert_file gives the reason of the first
\* matching rule (Invalid data, Permission denied, No space left, Error, else
\* UnknownFailure), and a return code of 0 is Success whatever stderr holds.
C7_FirstMatchingRule ==
    (verdict # NoVerdict /\ probe.kind = "exit") =>
        verdict.message.kind =
            IF probe.returncode = 0 THEN "Success" ELSE C7_RuleKind(probe.stderr)

\* C8: a worker removes an input file only for a job it recorded as a
\* success and only when its own delete_original is set.
C8_RemovedState ==
    \A w \in Runs :
        \A k \in 1..Len(hist[w].outcomes) :
            hist[w].outcomes[k].removed # "no" =>
                /\ hist[w].outcomes[k].success
                /\ workers[w].delete_original

C8_RemoveStep ==
    \A f \in Files :
        (f \in fs_exists /\ f \notin fs_exists') =>
            \E w \in Runs :
                /\ workers[w].pc = "encoding"
                /\ workers'[w].pc # "encoding"
                /\ workers[w].input_file = f
                /\ workers[w].delete_original
                /\ Last(hist'[w].outcomes).success
                /\ Last(hist'[w].outcomes).removed = "ok"

C8_DeleteOnlyOnSuccessWithFlag ==
    /\ []C8_RemovedState
    /\ [][C8_RemoveStep]_vars

\* A job whose input file was removed.
C8_Witness ==
    \E w \in Runs :
        \E k \in 1..Len(hist[w].outcomes) :
            /\ hist[w].outcomes[k].removed = "ok"
            /\ hist[w].outcomes[k].file \notin fs_exists

\* C9: when os.remove fails the job stays a success: counted in
\* converted_files, not added to failed_files.
C9_RemovalFailureKeepsSuccess ==
    \A w \in Runs :
        \A k \in 1..Len(hist[w].outcomes) :
            hist[w].outcomes[k].removed = "failed" =>
                /\ hist[w].outcomes[k].success
                /\ hist[w].outcomes[k].converted = 1
                /\ hist[w].outcomes[k].failed = 0

\* C10: every recorded job i of a run on N files is followed by the progress
\* value 100 * (i + 1) / N, and in a run that is not cancelled the values
\* increase strictly and the last one is exactly 100.
C10_ProgressAfterEveryJob ==
    \A w \in Runs :
        /\ Len(hist[w].progress) = Len(hist[w].outcomes)
        /\ \A k \in 1..Len(hist[w].progress) :
             hist[w].progress[k] = <<k, workers[w].total_files>>
        /\ (RunOver(w) /\ NotCancelled(w) /\ hist[w].progress # <<>>) =>
             Last(hist[w].progress)[1] = Last(hist[w].progress)[2]

\* The jobs of a run that were recorded as failures, in the order recorded.
FailedJobs(w) == SelectSeq(hist[w].outcomes, LAMBDA o : ~o.success)

\* C11: the summary of a run that ended agrees with its jobs: the success
\* count plus the number of listed failures is the number of jobs attempted,
\* and the failure list is exactly the failed jobs, with their reasons, in
\* the order of the list.
C11_SummaryMatchesOutcomes ==
    \A w \in Runs :
        (workers[w].pc = "done" /\ hist[w].ended # "fatal") =>
            LET summary == hist[w].summary
                failed == FailedJobs(w)
            IN /\ summary.converted + Len(summary.failed) = Len(hist[w].attempts)
               /\ Len(summary.failed) = Len(failed)
               /\ \A k \in 1..Len(failed) :
                    /\ summary.failed[k][1] = file_name(failed[k].file)
                    /\ summary.failed[k][2].kind = failed[k].kind

\* cmd holds the string a followed by the string b.
HasPair(cmd, a, b) == \E k \in 1..(Len(cmd) - 1) : cmd[k].s = a /\ cmd[k + 1].s = b

\* How often the string a occurs in cmd.
Count(cmd, a) == Cardinality({k \in 1..Len(cmd) : cmd[k].s = a})

\* The quality is one of the tiers the format offers.
TierOfFormat(output_format, quality) ==
    output_format \in Formats /\ quality \in Range(QualityValues(output_format))

\* The profile table: the codec of a format and the bitrate of a tier.
C12_Codec(output_format) ==
    CASE output_format = "mp3" -> "libmp3lame"
      [] output_format = "flac" -> "flac"
      [] output_format = "wav" -> "pcm_s16le"
      [] output_format = "ogg" -> "libvorbis"
      [] output_format \in {"m4a", "aac"} -> "aac"
      [] output_format = "wma" -> "wmav2"

C12_Bitrate(output_format, quality) ==
    IF output_format \in {"mp3", "aac", "wma"}
    THEN (CASE quality.word = "high" -> "192k"
            [] quality.word = "medium" -> "128k"
            [] quality.word = "low" -> "64k")
    ELSE (CASE quality.word = "high" -> "256k"
            [] quality.word = "medium" -> "192k"
            [] quality.word = "low" -> "128k")

C12_Flags(output_format, quality, cmd) ==
    /\ Count(cmd, "-codec:a") = 1
    /\ HasPair(cmd, "-codec:a", C12_Codec(output_format))
    /\ IF output_format \in {"flac", "wav"}
       THEN /\ Count(cmd, "-b:a") = 0
            /\ CASE quality.word = "lossless" -> Count(cmd, "-ar") = 0
                 [] quality.word = "high" ->
                      Count(cmd, "-ar") = 1 /\ HasPair(cmd, "-ar", "48000")
                 [] quality.word = "standard" ->
                      Count(cmd, "-ar") = 1 /\ HasPair(cmd, "-ar", "44100")
       ELSE /\ Count(cmd, "-ar") = 0
            /\ Count(cmd, "-b:a") = 1
            /\ HasPair(cmd, "-b:a", C12_Bitrate(output_format, quality))

\* C12: for each of the seven formats and each tier of its tier set the
\* command carries the codec of the format and the quality flag of the table:
\* one bitrate flag (192k/128k/64k for mp3, aac, wma; 256k/192k/128k for m4a,
\* ogg) and no sample rate for the lossy formats; no bitrate flag for flac and
\* wav, with no sample rate for lossless, 48000 for high, 44100 for standard.
C12_CommandFollowsProfileTable ==
    \A k \in 1..Len(calls) :
        TierOfFormat(calls[k].req.output_format, calls[k].req.quality) =>
            C12_Flags(calls[k].req.output_format, calls[k].req.quality, calls[k].out.cmd)

\* A call for m4a at the medium tier and a call for flac at the high tier.
C12_Witness ==
    /\ \E k \in 1..Len(calls) :
         /\ calls[k].req.output_format = "m4a"
         /\ calls[k].req.quality = Label("medium", "192 kbps")
         /\ HasPair(calls[k].out.cmd, "-b:a", "192k")
    /\ \E k \in 1..Len(calls) :
         /\ calls[k].req.output_format = "flac"
         /\ calls[k].req.quality = Label("high", "48kHz")
         /\ HasPair(calls[k].out.cmd, "-ar", "48000")

\* C13: a format outside the seven supported ones, or a quality whose tier
\* (high, medium, low, lossless, standard) the chosen format does not have, is
\* rejected: convert_file returns a failure and subprocess.run is not called.
C13_ValidConfiguration(output_format, quality) ==
    /\ output_format \in Formats
    /\ \E q \in Range(QualityValues(output_format)) : q.word = quality.word

C14_PrefixOutputAndContainer ==
    \A k \in 1..Len(calls) :
        LET req == calls[k].req
            cmd == calls[k].out.cmd
        IN /\ Len(cmd) >= 6
           /\ cmd[1] = Tok("ffmpeg")
           /\ cmd[2] = Tok("-y")
           /\ cmd[3] = Tok("-i")
           /\ cmd[4] = InTok(req.input_file)
           /\ cmd[5] = Tok("-vn")
           /\ cmd[Len(cmd)] = OutTok(calls[k].out.output_file)
           /\ \A j \in 1..(Len(cmd) - 1) : cmd[j].out = NoPath
           /\ IF req.output_format = "m4a"
              THEN Count(cmd, "-f") = 1 /\ HasPair(cmd, "-f", "mov")
              ELSE Count(cmd, "-f") = 0

\* A call for m4a, with the container forced, and a call for ogg, without.
C14_Witness ==
    /\ \E k \in 1..Len(calls) :
         calls[k].req.output_format = "m4a" /\ HasPair(calls[k].out.cmd, "-f", "mov")
    /\ \E k \in 1..Len(calls) :
         calls[k].req.output_format = "ogg" /\ Count(calls[k].out.cmd, "-f") = 0

\* The jobs recorded so far, of every run.
Jobs == {j \in Runs \X (1..MaxFiles) : j[2] <= Len(hist[j[1]].outcomes)}

Job(j) == hist[j[1]].outcomes[j[2]]

\* C15: the output path of a job is a function of the stem of its input and
\* of the format it is converted to (the output directory is fixed): two jobs
\* with the same stem and format have the same output path, whatever the
\* directory and extension of their inputs; the command names that path last
\* and carries the force-overwrite flag, so the later job replaces the output
\* of the earlier one without a question.
C15_OutputPathFromStemAndFormat ==
    /\ \A j1 \in Jobs, j2 \in Jobs :
         (Job(j1).file.stem = Job(j2).file.stem /\ Job(j1).format = Job(j2).format)
             => Job(j1).output = Job(j2).output
    /\ \A j1 \in Jobs, j2 \in Jobs :
         Job(j1).format # Job(j2).format => Job(j1).output # Job(j2).output
    /\ \A j \in Jobs :
         /\ Last(Job(j).cmd) = OutTok(Job(j).output)
         /\ Count(Job(j).cmd, "-y") = 1

\* One run converted two different inputs of the same stem to the same output
\* path, and both jobs are counted as successes.
C15_Witness ==
    \E w \in Runs :
        /\ Len(hist[w].outcomes) = 2
        /\ hist[w].outcomes[1].file # hist[w].outcomes[2].file
        /\ hist[w].outcomes[1].output = hist[w].outcomes[2].output
        /\ hist[w].outcomes[1].success /\ hist[w].outcomes[2].success
        /\ workers[w].converted_files = 2
        /\ workers[w].failed_files = <<>>

\* C16: every job of a run is converted with the output format and the
\* quality that were selected when the run started (the format the worker
\* announces, line 629 and 657), whatever is selected during the run.
C16_OptionsFixedAtStart ==
    \A w \in Runs :
        \A k \in 1..Len(hist[w].outcomes) :
            /\ hist[w].outcomes[k].format = workers[w].output_format
            /\ hist[w].outcomes[k].quality = hist[w].outcomes[1].quality

\* C17: the jobs of a run are the files the list held when the run began:
\* the run attempts at most that many files, the k-th attempt is the k-th file
\* of that list, whatever is added to or cleared from the list meanwhile.
C17_JobListNotChangedByUI ==
    \A w \in Runs :
        /\ Len(hist[w].attempts) <= workers[w].total_files
        /\ \A k \in 1..Len(hist[w].attempts) :
             k <= Len(hist[w].batch) /\ hist[w].attempts[k] = hist[w].batch[k]

\* C18: a run ends in one terminal state, Completed or Cancelled, and stays
\* there: a run whose loop was left by the cancellation check is not
\* summarised to the user as completed, and a worker that returned is never
\* started again, its way of ending never changed.
C18_CancelledNotCompleted ==
    \A w \in Runs :
        (workers[w].pc = "done" /\ hist[w].ended = "cancelled") =>
            hist[w].summary.title # "completed"

C18_TerminalStep ==
    \A w \in Runs :
        /\ workers[w].pc = "done" => workers'[w] = workers[w] /\ hist'[w] = hist[w]
        /\ hist[w].ended # "" => hist'[w].ended = hist[w].ended

C18_RunStateMachine ==
    /\ []C18_CancelledNotCompleted
    /\ [][C18_TerminalStep]_vars

\* Every started worker returns.
C19_WorkerReturns ==
    \A w \in Runs : (workers[w].pc = "begin") ~> (workers[w].pc = "done")

\* The step on which a worker leaves the function lowers the flag and enables
\* the start button.
C19_ReturnStep ==
    \A w \in Runs :
        (workers[w].pc # "done" /\ workers'[w].pc = "done") =>
            ~is_converting' /\ start_btn' = NORMAL

\* The jobs a run attempts are no more than the files of its batch.
C19_AttemptsBounded ==
    \A w \in Runs : Len(hist[w].attempts) <= Len(hist[w].batch)

\* C19: with the workers scheduled fairly and every encoder invocation
\* returning or timing out, every started run ends: the worker leaves its
\* loop, sets is_converting to false and enables the start button, after at
\* most as many job attempts as the batch has files.
C19_EveryRunTerminates ==
    /\ C19_WorkerReturns
    /\ [][C19_ReturnStep]_vars
    /\ []C19_AttemptsBounded

C21_StderrReasons ==
    {"InvalidInputData", "PermissionDenied", "DiskFull", "EncoderError", "UnknownFailure"}

\* The last line of stderr that is not blank, {} when there is none.
C21_LastNonBlank(error_msg) ==
    LET rest == NonBlankLines(error_msg)
    IN IF rest = <<>> THEN {} ELSE rest[Len(rest)]

\* C21: a non-zero return code is always given one of the five reasons read
\* from stderr, never Timeout or UnexpectedError; a stderr in which none of
\* the substrings occurs, the empty one and one of blank lines only included,
\* gives UnknownFailure with the last non-blank line.
C21_NonZeroExitReasonFromStderr ==
    (verdict # NoVerdict /\ probe.kind = "exit" /\ probe.returncode # 0) =>
        /\ ~verdict.success
        /\ verdict.message.kind \in C21_StderrReasons
        /\ (\A m \in {"Invalid data", "Permission denied", "No space left", "Error"} :
                ~InMsg(m, probe.stderr)) =>
             /\ verdict.message.kind = "UnknownFailure"
             /\ verdict.message.line = C21_LastNonBlank(probe.stderr)

\* C22: whatever formats and qualities are selected, in whatever order, the
\* selected quality is one of the tiers of the selected format, and the
\* combobox offers the tiers of that format.
C22_QualityIsTierOfFormat ==
    /\ TierOfFormat(output_format_var, quality_var)
    /\ quality_values = QualityValues(output_format_var)

\* A format was selected after another one, and then a tier that is not the
\* first of its set.
C22_Witness ==
    /\ clicks >= 3
    /\ output_format_var = "flac"
    /\ quality_var = Label("standard", "44.1kHz")

\* The thread of run w has been started and has not returned.
ThreadAlive(w) == workers[w].pc \notin {"none", "done"}

\* C23: while a conversion worker is alive the start button is disabled, and
\* start_conversion starts no second worker beside it.
C23_StartDisabledWhileWorkerAlive ==
    /\ (\E w \in Runs : ThreadAlive(w)) => start_btn = DISABLED
    /\ Cardinality({w \in Runs : ThreadAlive(w)}) <= 1

\* progress_var <<n, d>> stands for 100 * n / d: it is within 0..100.
C24_InRange ==
    /\ progress_var[2] > 0
    /\ 0 <= progress_var[1]
    /\ progress_var[1] <= progress_var[2]

\* A step of a worker does not lower the value: n'/d' >= n/d.
C24_WorkerStep ==
    (\E w \in Runs : workers'[w] # workers[w]) =>
        progress_var'[1] * progress_var[2] >= progress_var[1] * progress_var'[2]

\* C24: the progress value is always between 0 and 100 and no step of a
\* running worker lowers it, whatever files are added during the run.
C24_ProgressWithinRangeAndMonotone ==
    /\ []C24_InRange
    /\ [][C24_WorkerStep]_vars

\* C25: no audio is lost by a run that deletes its sources: when a job's
\* source was removed, no later job of the same run has written the same
\* output path, so the file there is still the one made from that source.
C25_DeletedSourceKeepsItsOutput ==
    \A w \in Runs :
        \A k1 \in 1..Len(hist[w].outcomes), k2 \in 1..Len(hist[w].outcomes) :
            (k1 < k2 /\ hist[w].outcomes[k1].removed = "ok" /\ hist[w].outcomes[k2].success)
                => hist[w].outcomes[k2].output # hist[w].outcomes[k1].output

====
